---- MODULE Spec2Model ----
(***************************************************************************)
(* Model of mining_report.py: the csv row source (GetDataSet), the total   *)
(* gold rank report (TotalGoldRank) and the market share matrix            *)
(* (MarketShareAnalysis, AllColorTotals, MarketShareAnalysisMatrix), run   *)
(* one after the other by main() on the same input file.                   *)
(*                                                                         *)
(* Representation.                                                         *)
(*  - A csv row (csv.DictReader) is a function from the header's column    *)
(*    names to strings; a column the header lacks is outside its DOMAIN    *)
(*    and reading it is Python's KeyError.                                 *)
(*  - Python's None is the empty tuple <<>>, a present value v is <<v>>.   *)
(*  - A Decimal is an integer number of units: Decimal(s) of a csv string  *)
(*    is in tenths, a product of two of them in hundredths.  A quotient is *)
(*    the exact fraction in lowest terms (Decimal's 28 significant digits  *)
(*    are beyond every value of the model).                                *)
(*  - The iteration order of a Python 2 dict or set is not defined by the  *)
(*    language: every loop over one takes a permutation of its keys,       *)
(*    chosen nondeterministically.                                         *)
(***************************************************************************)
EXTENDS Integers, Sequences, FiniteSets, TLC

\* Most rows of an input file.
MaxRows == 3

None == <<>>
Some(v) == <<v>>

\* Python truth value of an optional Decimal: None and Decimal(0) are false.
Truthy(x) == x # None /\ x[1] # 0

ELF_NAME == "Elf Name"
ELF_ID == "Elf ID"
GEM_TYPE == "Gem Type"
WEIGHT == "Weight"
QUANTITY == "Quantity"
GOLD == "Gold"
MINING_DATE == "Mining Date"

\* main's defaults for --start_date (inclusive) and --end_date (exclusive)
DATE_START == "2015-01-01"
DATE_END == "2015-07-01"
\* the window MarketShareAnalysisMatrix gives its prior-period data set
PRIOR_START == "2014-1-1"
PRIOR_END == "2015-1-1"

\* datetime.strptime(s, '%Y-%m-%d').date(), as year*10000 + month*100 + day,
\* which orders as dates do.
StrpDate(s) ==
    CASE s = "2014-1-1" -> 20140101
      [] s = "2014-03-01" -> 20140301
      [] s = "2014-09-01" -> 20140901
      [] s = "2015-1-1" -> 20150101
      [] s = "2015-01-01" -> 20150101
      [] s = "2015-03-01" -> 20150301
      [] s = "2015-07-01" -> 20150701

\* Decimal(s) of a csv field, in tenths.
Decimal(s) ==
    CASE s = "0" -> 0
      [] s = "1.5" -> 15
      [] s = "2" -> 20
      [] s = "3" -> 30
      [] s = "5" -> 50

\* dict()
EmptyDict == [k \in {} |-> None]

\* The permutations of a finite set, as sequences: the orders in which a loop
\* over a dict or set with these keys can run.
Perms(S) ==
    { p \in [1..Cardinality(S) -> S] : \A i, j \in 1..Cardinality(S) : p[i] = p[j] => i = j }

\* ------------------------------------------------------------------
\* GetDataSet: the row source

\* The window's end taken as inclusive.
InWindowEndInclusive(mining_date, start, end) ==
    ~(mining_date < start \/ mining_date > end)

\* keep_me's date test: not (mining_date < start or mining_date >= end).
InWindow(mining_date, start, end) ==
    ~(mining_date < start \/ mining_date >= end)

\* keep_me's loop over fieldnames_in + ['Mining Date'], then its date test.
\* "keep" is True, "skip" is False, "KeyError" the re-raised KeyError.
RECURSIVE KeepScan(_, _, _, _, _)
KeepScan(row, cols, i, start, end) ==
    IF i > Len(cols)
    THEN IF InWindow(StrpDate(row[MINING_DATE]), StrpDate(start), StrpDate(end))
         THEN "keep"
         ELSE "skip"
    ELSE IF cols[i] \notin DOMAIN row
         THEN "KeyError"
         ELSE IF row[cols[i]] = ""
              THEN "skip"
              ELSE KeepScan(row, cols, i + 1, start, end)

keep_me(row, fieldnames_in, start, end) ==
    KeepScan(row, fieldnames_in \o <<MINING_DATE>>, 1, start, end)

\* x = {k: row[k] for k in self.fieldnames_in}
Project(row, fieldnames_in) ==
    [k \in { fieldnames_in[i] : i \in 1..Len(fieldnames_in) } |-> row[k]]

\* get_csv_bits run to its end: the rows yielded, in order, how many rows of the
\* file the reader examined, and whether keep_me raised.
RECURSIVE CsvBitsFrom(_, _, _, _, _, _)
CsvBitsFrom(rows, i, fieldnames_in, start, end, acc) ==
    IF i > Len(rows)
    THEN [yielded |-> acc, examined |-> Len(rows), error |-> "none"]
    ELSE LET k == keep_me(rows[i], fieldnames_in, start, end)
         IN  IF k = "KeyError"
             THEN [yielded |-> acc, examined |-> i, error |-> "KeyError"]
             ELSE CsvBitsFrom(rows, i + 1, fieldnames_in, start, end,
                              IF k = "keep"
                              THEN Append(acc, Project(rows[i], fieldnames_in))
                              ELSE acc)

get_csv_bits(rows, fieldnames_in, start, end) ==
    CsvBitsFrom(rows, 1, fieldnames_in, start, end, <<>>)

\* ------------------------------------------------------------------
\* sorted(seq, key=..., reverse=True) over the keys of seq's members: the
\* indices of seq in sorted order.  The sort is stable, so members with equal
\* keys keep the order they have in seq.

RECURSIVE InsertDesc(_, _, _)
InsertDesc(sorted, i, keys) ==
    IF sorted = <<>>
    THEN <<i>>
    ELSE IF keys[Head(sorted)] >= keys[i]
         THEN <<Head(sorted)>> \o InsertDesc(Tail(sorted), i, keys)
         ELSE <<i>> \o sorted

RECURSIVE SortedFrom(_, _, _)
SortedFrom(keys, i, acc) ==
    IF i > Len(keys)
    THEN acc
    ELSE SortedFrom(keys, i + 1, InsertDesc(acc, i, keys))

\* No sort: the members in the order they came.
Unsorted(keys) == [i \in 1..Len(keys) |-> i]

SortedReverse(keys) == SortedFrom(keys, 1, <<>>)

\* ------------------------------------------------------------------
\* TotalGoldRank

TGR_FIELDNAMES_IN == <<ELF_NAME, GOLD>>

\* The totals dict of rank_tgr_by_elf after its loop over the yielded rows.
RECURSIVE TgrTotalsFrom(_, _, _)
TgrTotalsFrom(yielded, i, totals) ==
    IF i > Len(yielded)
    THEN totals
    ELSE LET row == yielded[i]
             elf == row[ELF_NAME]
         IN  TgrTotalsFrom(yielded, i + 1,
                 IF elf \in DOMAIN totals
                 THEN [totals EXCEPT ![elf] = @ + Decimal(row[GOLD])]
                 ELSE (elf :> Decimal(row[GOLD])) @@ totals)

TgrTotals(yielded) == TgrTotalsFrom(yielded, 1, EmptyDict)

\* rank = sorted(totals.items(), key=lambda t: t[1], reverse=True), numbered
\* from 1, one output row each; `order` is the order totals.items() came in.
rank_tgr_by_elf(totals, order) ==
    LET items == [i \in 1..Len(order) |-> <<order[i], totals[order[i]]>>]
        idx == SortedReverse([i \in 1..Len(items) |-> items[i][2]])
        rank == [i \in 1..Len(idx) |-> items[idx[i]]]
    IN  [i \in 1..Len(rank) |->
            (ELF_NAME :> rank[i][1]) @@ (GOLD :> rank[i][2]) @@ ("Rank" :> i)]

\* ------------------------------------------------------------------
\* GemTypeLookup

\* The rows of colo.csv, the gem type lookup file: an input of the program,
\* fixed here.  Two gem types share a color, and one color (Mauve) is not a key
\* of COLOR_TO_COLORCAT.
COLO_CSV ==
    << [type |-> "Ruby", color |-> "Red"],
       [type |-> "Garnet", color |-> "Red"],
       [type |-> "Topaz", color |-> "Teal"],
       [type |-> "Opal", color |-> "Mauve"] >>

COLOR_TO_COLORCAT ==
    [c \in {"Cerulean", "Teal", "Cyan", "Azure", "Turquoise", "Green", "Purple",
            "Orange", "Red", "Brown", "Yellow", "Magenta", "Fuscia"} |->
        CASE c \in {"Cerulean", "Teal", "Cyan", "Azure", "Turquoise"} -> "Blue"
          [] c \in {"Magenta", "Fuscia"} -> "Magenta"
          [] OTHER -> c]

\* gem_rows[row['Gem Type']] = row['Color'] for every row of the lookup file
\* (GemTypeLookup.keep_me keeps them all).
RECURSIVE LookupFrom(_, _, _)
LookupFrom(rows, i, gem_rows) ==
    IF i > Len(rows)
    THEN gem_rows
    ELSE LookupFrom(rows, i + 1,
             [t \in DOMAIN gem_rows \cup {rows[i].type} |->
                 IF t = rows[i].type THEN rows[i].color ELSE gem_rows[t]])

lookup_gem_rows == LookupFrom(COLO_CSV, 1, EmptyDict)

\* ------------------------------------------------------------------
\* MarketShareAnalysis

MSA_FIELDNAMES_IN == <<ELF_NAME, ELF_ID, GEM_TYPE, WEIGHT, QUANTITY>>

\* dict[key] = value
DictSet(d, key, value) ==
    [k \in DOMAIN d \cup {key} |-> IF k = key THEN value ELSE d[k]]

\* add_grams_for_gem_color were it to store each row's weight * quantity in
\* place of the total so far.
add_grams_replacing(gem_color_dict, row) ==
    IF row[GEM_TYPE] \notin DOMAIN lookup_gem_rows
    THEN [error |-> "KeyError", dict |-> gem_color_dict]
    ELSE [error |-> "none",
          dict |-> DictSet(gem_color_dict, lookup_gem_rows[row[GEM_TYPE]],
                           Decimal(row[WEIGHT]) * Decimal(row[QUANTITY]))]

\* add_grams_for_gem_color: the dict with the row's weight * quantity added
\* under the row's gem color, or the KeyError of gem_rows[row['Gem Type']].
add_grams_for_gem_color(gem_color_dict, row) ==
    IF row[GEM_TYPE] \notin DOMAIN lookup_gem_rows
    THEN [error |-> "KeyError", dict |-> gem_color_dict]
    ELSE LET gem_color == lookup_gem_rows[row[GEM_TYPE]]
             total_grams == Decimal(row[WEIGHT]) * Decimal(row[QUANTITY])
         IN  [error |-> "none",
              dict |-> IF gem_color \notin DOMAIN gem_color_dict
                       THEN DictSet(gem_color_dict, gem_color, total_grams)
                       ELSE [gem_color_dict EXCEPT ![gem_color] = @ + total_grams]]

\* The first loop of elf_grams_by_gem_color: output_per_elf and elf_ids after
\* the yielded rows, or the KeyError of the first row whose gem type the lookup
\* lacks.
RECURSIVE PerElfFrom(_, _, _, _)
PerElfFrom(yielded, i, output_per_elf, elf_ids) ==
    IF i > Len(yielded)
    THEN [error |-> "none", output_per_elf |-> output_per_elf, elf_ids |-> elf_ids]
    ELSE LET row == yielded[i]
             elf == row[ELF_NAME]
             ids == DictSet(elf_ids, elf, row[ELF_ID])
             mine == IF elf \in DOMAIN output_per_elf
                     THEN output_per_elf[elf]
                     ELSE EmptyDict
             added == add_grams_for_gem_color(mine, row)
         IN  IF added.error # "none"
             THEN [error |-> added.error, output_per_elf |-> output_per_elf,
                   elf_ids |-> ids]
             ELSE PerElfFrom(yielded, i + 1,
                             DictSet(output_per_elf, elf, added.dict), ids)

\* gem_colors[gem_color]: the tuples (color cat, gem color, elf, elf id, total)
\* of the elves that have the color, in the order the loop over output_per_elf
\* met them.
ElfGrams(output_per_elf, elf_ids, elf_order, gem_color) ==
    LET has == SelectSeq(elf_order, LAMBDA e : gem_color \in DOMAIN output_per_elf[e])
    IN  [i \in 1..Len(has) |->
            <<COLOR_TO_COLORCAT[gem_color], gem_color, has[i], elf_ids[has[i]],
              output_per_elf[has[i]][gem_color]>>]

\* rank = sorted(elf_grams, key=lambda t: t[4], reverse=True), numbered from 1,
\* one output row each.
RankInColor(elf_grams) ==
    LET idx == SortedReverse([i \in 1..Len(elf_grams) |-> elf_grams[i][5]])
    IN  [i \in 1..Len(idx) |->
            ("Color Cat" :> elf_grams[idx[i]][1]) @@
            ("Gem Color" :> elf_grams[idx[i]][2]) @@
            (ELF_NAME :> elf_grams[idx[i]][3]) @@
            (ELF_ID :> elf_grams[idx[i]][4]) @@
            ("Total Weight" :> elf_grams[idx[i]][5]) @@
            ("Rank in Gem Color" :> i)]

RECURSIVE Concat(_, _)
Concat(seqs, i) ==
    IF i > Len(seqs) THEN <<>> ELSE seqs[i] \o Concat(seqs, i + 1)

\* The gem colors some elf has a total for.
ColorsOf(output_per_elf) ==
    UNION { DOMAIN output_per_elf[e] : e \in DOMAIN output_per_elf }

\* elf_grams_by_gem_color run to its end over the rows get_csv_bits yielded:
\* the rows it yields and elf_ids, or the KeyError that ends it.  elf_order is
\* the order of output_per_elf.iteritems(), color_order that of
\* gem_colors.iteritems().
elf_grams_by_gem_color(yielded, elf_order, color_order) ==
    LET per == PerElfFrom(yielded, 1, EmptyDict, EmptyDict)
    IN  IF per.error # "none"
        THEN [error |-> per.error, rows |-> <<>>, elf_ids |-> per.elf_ids]
        ELSE IF \E c \in ColorsOf(per.output_per_elf) : c \notin DOMAIN COLOR_TO_COLORCAT
             THEN [error |-> "KeyError", rows |-> <<>>, elf_ids |-> per.elf_ids]
             ELSE [error |-> "none",
                   rows |-> Concat([i \in 1..Len(color_order) |->
                                RankInColor(ElfGrams(per.output_per_elf, per.elf_ids,
                                                     elf_order, color_order[i]))], 1),
                   elf_ids |-> per.elf_ids]

PerElf(yielded) == PerElfFrom(yielded, 1, EmptyDict, EmptyDict)

\* ------------------------------------------------------------------
\* AllColorTotals

ACT_FIELDNAMES_IN == <<GEM_TYPE, WEIGHT, QUANTITY>>

\* The loop of all_grams_by_gem_color: totals_by_color after the yielded rows,
\* or the KeyError of the first row whose gem type the lookup lacks.
RECURSIVE AllGramsFrom(_, _, _)
AllGramsFrom(yielded, i, totals_by_color) ==
    IF i > Len(yielded)
    THEN [error |-> "none", dict |-> totals_by_color]
    ELSE LET added == add_grams_for_gem_color(totals_by_color, yielded[i])
         IN  IF added.error # "none"
             THEN added
             ELSE AllGramsFrom(yielded, i + 1, added.dict)

\* all_grams_by_gem_color run to its end: self.totals_by_color, or the KeyError
\* that ends it (of the lookup, or of COLOR_TO_COLORCAT[gem_color] when it
\* yields the row of a color the table lacks).
all_grams_by_gem_color(yielded) ==
    LET all == AllGramsFrom(yielded, 1, EmptyDict)
    IN  IF all.error # "none"
        THEN all
        ELSE IF \E c \in DOMAIN all.dict : c \notin DOMAIN COLOR_TO_COLORCAT
             THEN [error |-> "KeyError", dict |-> all.dict]
             ELSE all

\* ------------------------------------------------------------------
\* MarketShareAnalysisMatrix

MATRIX_FIELDNAMES_OUT ==
    <<ELF_NAME, ELF_ID, "Color Cat", "Gem Color", "Total Weight 2014",
      "Total Weight 2015", "2015 vs. 2014", "2015 Mining Market Share",
      "2015 Color Rank">>

\* double_key_elf_color: the rows keyed by (elf name, gem color); a later row
\* replaces an earlier one with the same key.
RECURSIVE DoubleKeyFrom(_, _, _)
DoubleKeyFrom(list_of_dicts, i, double_key) ==
    IF i > Len(list_of_dicts)
    THEN double_key
    ELSE DoubleKeyFrom(list_of_dicts, i + 1,
             DictSet(double_key,
                     <<list_of_dicts[i][ELF_NAME], list_of_dicts[i]["Gem Color"]>>,
                     list_of_dicts[i]))

double_key_elf_color(list_of_dicts) == DoubleKeyFrom(list_of_dicts, 1, EmptyDict)

RECURSIVE Gcd(_, _)
Gcd(a, b) == IF b = 0 THEN a ELSE Gcd(b, a % b)

\* What stands for the quotient when Decimal's division raises (a divisor of
\* zero: DivisionByZero or DivisionUndefined, both a ZeroDivisionError).
DivisionError == <<0, 0>>

\* Decimal a / Decimal b for a >= 0 and b >= 0 in the same unit: the quotient as
\* the fraction <<numerator, denominator>> in lowest terms.
DecimalDiv(a, b) ==
    IF b = 0 THEN DivisionError ELSE <<a \div Gcd(a, b), b \div Gcd(a, b)>>

\* The ratio taken whenever the prior total is present, zero or not.
PrevYearWhenPresent(tw2014, tw2015) ==
    IF tw2015 # None /\ tw2014 # None
    THEN Some(DecimalDiv(tw2015[1], tw2014[1]))
    ELSE None

\* prev_year: Decimal(row['Total Weight 2015']) / Decimal(row['Total Weight
\* 2014']) when the pair has a row in the reporting window and
\* row['Total Weight 2014'] is true, None otherwise.
PrevYear(tw2014, tw2015) ==
    IF tw2015 # None /\ Truthy(tw2014)
    THEN Some(DecimalDiv(tw2015[1], tw2014[1]))
    ELSE None

\* One pass of the loop of calculate_MarketShare_matrix: the row of the pair
\* (elf, color); the caller has found color in COLOR_TO_COLORCAT.
MatrixRow(elf, color, enc_2014, enc_2015, ids, totals_by_color) ==
    LET elfncolor == <<elf, color>>
        tw2014 == IF elfncolor \in DOMAIN enc_2014
                  THEN Some(enc_2014[elfncolor]["Total Weight"])
                  ELSE None
        found == elfncolor \in DOMAIN enc_2015
        tw2015 == IF found THEN Some(enc_2015[elfncolor]["Total Weight"]) ELSE None
        rank == IF found THEN Some(enc_2015[elfncolor]["Rank in Gem Color"]) ELSE None
        prev_year == PrevYear(tw2014, tw2015)
        total_2015 == IF color \in DOMAIN totals_by_color
                      THEN Some(totals_by_color[color])
                      ELSE None
        share == IF Truthy(total_2015) /\ Truthy(tw2015)
                 THEN Some(DecimalDiv(tw2015[1], total_2015[1]))
                 ELSE None
    IN  (ELF_NAME :> elf) @@
        ("Color Cat" :> COLOR_TO_COLORCAT[color]) @@
        ("Gem Color" :> color) @@
        (ELF_ID :> ids[elf]) @@
        ("Total Weight 2014" :> tw2014) @@
        ("Total Weight 2015" :> tw2015) @@
        ("2015 Color Rank" :> rank) @@
        ("2015 vs. 2014" :> prev_year) @@
        ("2015 Mining Market Share" :> share)

\* itertools.product(elves, colors): elves outer, colors inner.
Product(elves, colors) ==
    [k \in 1..(Len(elves) * Len(colors)) |->
        <<elves[((k - 1) \div Len(colors)) + 1], colors[((k - 1) % Len(colors)) + 1]>>]

\* Only the pairs that have a row in the reporting window.
MatrixRowsWithData(elves, colors, enc_2014, enc_2015, ids, totals_by_color) ==
    LET pairs == SelectSeq(Product(elves, colors),
                           LAMBDA ec : ec[2] \in DOMAIN COLOR_TO_COLORCAT /\ ec \in DOMAIN enc_2015)
    IN  [k \in 1..Len(pairs) |->
            MatrixRow(pairs[k][1], pairs[k][2], enc_2014, enc_2015, ids, totals_by_color)]

\* The rows calculate_MarketShare_matrix yields once its three data sets are
\* built: one per pair of elves x colors in product order, a pair whose color
\* COLOR_TO_COLORCAT lacks skipped.
MatrixRows(elves, colors, enc_2014, enc_2015, ids, totals_by_color) ==
    LET pairs == SelectSeq(Product(elves, colors),
                           LAMBDA ec : ec[2] \in DOMAIN COLOR_TO_COLORCAT)
    IN  [k \in 1..Len(pairs) |->
            MatrixRow(pairs[k][1], pairs[k][2], enc_2014, enc_2015, ids, totals_by_color)]

\* set(gem_rows.values())
LookupColors == { lookup_gem_rows[t] : t \in DOMAIN lookup_gem_rows }

\* ------------------------------------------------------------------
\* The input files

ALL_COLUMNS == {ELF_NAME, ELF_ID, GEM_TYPE, WEIGHT, QUANTITY, GOLD, MINING_DATE}

Row(name, id, gem, weight, quantity, gold, date) ==
    (ELF_NAME :> name) @@ (ELF_ID :> id) @@ (GEM_TYPE :> gem) @@ (WEIGHT :> weight) @@
    (QUANTITY :> quantity) @@ (GOLD :> gold) @@ (MINING_DATE :> date)

\* The rows an input file is made of: two elves mining one color in the prior
\* and in the reporting window, a second color, zero weights, an empty elf
\* name, an empty elf id, a gem type the lookup lacks (Coal), a gem type whose
\* color the category table lacks (Opal), and a date at the window's end.
InputRows ==
    { Row(n[1], n[2], "Ruby", "1.5", "2", "5", d) :
        n \in {<<"A", "7">>, <<"B", "8">>}, d \in {"2014-09-01", "2015-03-01"} }
    \cup { Row("A", "7", "Ruby", "0", "2", "2", d) : d \in {"2014-09-01", "2015-03-01"} }
    \cup { Row("B", "8", "Topaz", "3", "2", "5", "2015-03-01"),
           Row("", "9", "Ruby", "1.5", "2", "5", "2015-03-01"),
           Row("B", "", "Topaz", "1.5", "2", "5", "2015-03-01"),
           Row("A", "7", "Coal", "1.5", "2", "5", "2015-03-01"),
           Row("B", "8", "Opal", "1.5", "2", "5", "2015-03-01"),
           Row("B", "8", "Ruby", "1.5", "2", "3", "2015-07-01") }

\* The columns an input file's header may lack (at most one of them).
MissingColumns == {GOLD, QUANTITY, MINING_DATE}

Headers == {ALL_COLUMNS} \cup { ALL_COLUMNS \ {c} : c \in MissingColumns }

Restrict(row, header) == [c \in header |-> row[c]]

\* An input file: the rows f[1], ..., f[n] under the header h.
InputFile(n, h, f) == [i \in 1..n |-> Restrict(f[i], h)]

\* ------------------------------------------------------------------
\* The program's state

VARIABLES
    note,            \* opts.note
    args,            \* the positional arguments: <<>> or <<the input file's rows>>
    pc,              \* where main is
    exit_code,       \* None while running, then the process's exit status
    exception,       \* the exception that ended the run, "none" without one
    stdout,          \* what was printed
    files,           \* the output files: None (not created) or header and rows
    reader,          \* the get_csv_bits generator of the data set being read
    list_of_dicts,   \* self.list_of_dicts of the data set being written
    elfncolor_2014,  \* calculate_MarketShare_matrix's locals
    elfncolor_2015,
    elf_ids,         \* data_2015.elf_ids
    totals_by_color  \* data_2015_all.totals_by_color

vars == <<note, args, pc, exit_code, exception, stdout, files, reader, list_of_dicts,
          elfncolor_2014, elfncolor_2015, elf_ids, totals_by_color>>

TGR_CSV == "-tgr.csv"
MS_CSV == "-ms.csv"

NoReader ==
    [fieldnames_in |-> <<>>, start |-> "", end |-> "", yielded |-> <<>>,
     examined |-> 0, error |-> "none", exhausted |-> FALSE]

csv_file == args[1]

\* The generator get_csv_bits of a data set with these fieldnames_in and dates,
\* left where its consumer left it: run to its end (or to keep_me's KeyError)
\* when consumed is None, and otherwise stopped at the consumed[1]-th row it
\* yielded, where the consumer raised.
Reader(fieldnames_in, start, end, consumed) ==
    LET whole == get_csv_bits(csv_file, fieldnames_in, start, end)
        upto == IF consumed = None
                THEN whole.examined
                ELSE CHOOSE n \in 1..Len(csv_file) :
                        /\ Len(get_csv_bits(SubSeq(csv_file, 1, n), fieldnames_in,
                                            start, end).yielded) = consumed[1]
                        /\ Len(get_csv_bits(SubSeq(csv_file, 1, n - 1), fieldnames_in,
                                            start, end).yielded) = consumed[1] - 1
    IN  [fieldnames_in |-> fieldnames_in, start |-> start, end |-> end,
         yielded |-> IF consumed = None
                     THEN whole.yielded
                     ELSE SubSeq(whole.yielded, 1, consumed[1]),
         examined |-> upto,
         error |-> IF consumed = None THEN whole.error ELSE "none",
         exhausted |-> consumed = None /\ whole.error = "none"]

Init ==
    /\ \/ note = TRUE /\ args = <<>>
       \/ note = FALSE /\ args = <<>>
       \/ /\ note = FALSE
          /\ \E n \in 0..MaxRows, h \in Headers :
                \E f \in [1..n -> InputRows] : args = <<InputFile(n, h, f)>>
    /\ pc = "main"
    /\ exit_code = None
    /\ exception = "none"
    /\ stdout = <<>>
    /\ files = (TGR_CSV :> None) @@ (MS_CSV :> None)
    /\ reader = NoReader
    /\ list_of_dicts = <<>>
    /\ elfncolor_2014 = EmptyDict
    /\ elfncolor_2015 = EmptyDict
    /\ elf_ids = EmptyDict
    /\ totals_by_color = EmptyDict

\* ------------------------------------------------------------------
\* The steps of main

\* An exception nothing catches: the traceback, exit status 1.  The with
\* statement of write_new_csv closes the output file as it is.
Raise(kind) ==
    /\ pc' = "exited"
    /\ exit_code' = Some(1)
    /\ exception' = kind

\* with open(self.new_csv_name, 'wb') and the header row.
Opened(name, fieldnames_out) ==
    [files EXCEPT ![name] = Some([header |-> fieldnames_out, rows |-> <<>>])]

\* for row in self.list_of_dicts: writer.writerow(row)
Written(name) ==
    [files EXCEPT ![name] = Some([header |-> @[1].header, rows |-> list_of_dicts])]

\* opts.note: show_notes(), the help text, exit().
ShowNotes ==
    /\ pc = "main"
    /\ note
    /\ stdout' = stdout \o << <<"notes">>, <<"help">> >>
    /\ exit_code' = Some(0)
    /\ pc' = "exited"
    /\ UNCHANGED <<note, args, exception, files, reader, list_of_dicts, elfncolor_2014,
                   elfncolor_2015, elf_ids, totals_by_color>>

\* not args: the help text, exit().
NoArgs ==
    /\ pc = "main"
    /\ ~note
    /\ args = <<>>
    /\ stdout' = Append(stdout, <<"help">>)
    /\ exit_code' = Some(0)
    /\ pc' = "exited"
    /\ UNCHANGED <<note, args, exception, files, reader, list_of_dicts, elfncolor_2014,
                   elfncolor_2015, elf_ids, totals_by_color>>

\* make_rank_by_tgr up to write_new_csv's header row.
MakeRankByTgr ==
    /\ pc = "main"
    /\ ~note
    /\ args # <<>>
    /\ files' = Opened(TGR_CSV, TGR_FIELDNAMES_IN \o <<"Rank">>)
    /\ pc' = "tgr_save"
    /\ UNCHANGED <<note, args, exit_code, exception, stdout, reader, list_of_dicts, elfncolor_2014,
                   elfncolor_2015, elf_ids, totals_by_color>>

\* save_list_of_dicts of TotalGoldRank: rank_tgr_by_elf run to its end.
TgrSaveListOfDicts ==
    /\ pc = "tgr_save"
    /\ reader' = Reader(TGR_FIELDNAMES_IN, DATE_START, DATE_END, None)
    /\ IF reader'.error # "none"
       THEN /\ Raise("KeyError")
            /\ list_of_dicts' = <<>>
       ELSE /\ \E order \in Perms(DOMAIN TgrTotals(reader'.yielded)) :
                 list_of_dicts' = rank_tgr_by_elf(TgrTotals(reader'.yielded), order)
            /\ pc' = "tgr_rows"
            /\ UNCHANGED <<exit_code, exception>>
    /\ UNCHANGED <<note, args, stdout, files, elfncolor_2014, elfncolor_2015, elf_ids,
                   totals_by_color>>

\* The rest of write_new_csv, and make_rank_by_tgr's print.
TgrWriteRows ==
    /\ pc = "tgr_rows"
    /\ files' = Written(TGR_CSV)
    /\ stdout' = Append(stdout, <<"wrote", Len(list_of_dicts), TGR_CSV>>)
    /\ pc' = "ms_open"
    /\ UNCHANGED <<note, args, exit_code, exception, reader, list_of_dicts, elfncolor_2014,
                   elfncolor_2015, elf_ids, totals_by_color>>

\* make_market_share_data up to write_new_csv's header row.
MakeMarketShareData ==
    /\ pc = "ms_open"
    /\ files' = Opened(MS_CSV, MATRIX_FIELDNAMES_OUT)
    /\ list_of_dicts' = <<>>
    /\ pc' = "ms_2014"
    /\ UNCHANGED <<note, args, exit_code, exception, stdout, reader, elfncolor_2014,
                   elfncolor_2015, elf_ids, totals_by_color>>

\* A MarketShareAnalysis over [start, end): the ways its save_list_of_dicts,
\* which runs elf_grams_by_gem_color to its end, can come out, one per order of
\* its loops over dicts.  data is what it gives, reader the generator as the
\* run left it.
MsaOutcomes(start, end) ==
    LET whole == get_csv_bits(csv_file, MSA_FIELDNAMES_IN, start, end)
        per == PerElf(whole.yielded)
    IN  IF per.error # "none"
        THEN \* add_grams_for_gem_color raised on a yielded row
             { [data |-> [error |-> per.error, rows |-> <<>>, elf_ids |-> per.elf_ids],
                reader |-> Reader(MSA_FIELDNAMES_IN, start, end,
                             Some(CHOOSE i \in 1..Len(whole.yielded) :
                                    /\ PerElf(SubSeq(whole.yielded, 1, i)).error # "none"
                                    /\ PerElf(SubSeq(whole.yielded, 1, i - 1)).error = "none"))] }
        ELSE IF whole.error # "none"
             THEN \* keep_me raised
                  { [data |-> [error |-> whole.error, rows |-> <<>>, elf_ids |-> per.elf_ids],
                     reader |-> Reader(MSA_FIELDNAMES_IN, start, end, None)] }
             ELSE { [data |-> elf_grams_by_gem_color(whole.yielded, elf_order, color_order),
                     reader |-> Reader(MSA_FIELDNAMES_IN, start, end, None)] :
                    elf_order \in Perms(DOMAIN per.output_per_elf),
                    color_order \in Perms(ColorsOf(per.output_per_elf)) }

\* data_2014 = MarketShareAnalysis(csv_filename, '2014-1-1', '2015-1-1') and
\* elfncolor_2014 = double_key_elf_color(data_2014.save_list_of_dicts()).
Data2014 ==
    /\ pc = "ms_2014"
    /\ \E o \in MsaOutcomes(PRIOR_START, PRIOR_END) :
          /\ reader' = o.reader
          /\ IF o.data.error # "none"
             THEN /\ Raise("KeyError")
                  /\ UNCHANGED elfncolor_2014
             ELSE /\ elfncolor_2014' = double_key_elf_color(o.data.rows)
                  /\ pc' = "ms_2015"
                  /\ UNCHANGED <<exit_code, exception>>
    /\ UNCHANGED <<note, args, stdout, files, list_of_dicts, elfncolor_2015, elf_ids,
                   totals_by_color>>

\* data_2015 = MarketShareAnalysis(csv_filename, date_start, date_end) and
\* elfncolor_2015 = double_key_elf_color(data_2015.save_list_of_dicts()).
Data2015 ==
    /\ pc = "ms_2015"
    /\ \E o \in MsaOutcomes(DATE_START, DATE_END) :
          /\ reader' = o.reader
          /\ elf_ids' = o.data.elf_ids
          /\ IF o.data.error # "none"
             THEN /\ Raise("KeyError")
                  /\ UNCHANGED elfncolor_2015
             ELSE /\ elfncolor_2015' = double_key_elf_color(o.data.rows)
                  /\ pc' = "ms_all"
                  /\ UNCHANGED <<exit_code, exception>>
    /\ UNCHANGED <<note, args, stdout, files, list_of_dicts, elfncolor_2014,
                   totals_by_color>>

\* data_2015_all = AllColorTotals(csv_filename, date_start, date_end) and its
\* save_list_of_dicts, which runs all_grams_by_gem_color to its end.
Data2015All ==
    /\ pc = "ms_all"
    /\ LET whole == get_csv_bits(csv_file, ACT_FIELDNAMES_IN, DATE_START, DATE_END)
           all == AllGramsFrom(whole.yielded, 1, EmptyDict)
           end == all_grams_by_gem_color(whole.yielded)
       IN  /\ reader' =
                 IF all.error # "none"
                 THEN Reader(ACT_FIELDNAMES_IN, DATE_START, DATE_END,
                        Some(CHOOSE i \in 1..Len(whole.yielded) :
                               /\ AllGramsFrom(SubSeq(whole.yielded, 1, i), 1, EmptyDict).error # "none"
                               /\ AllGramsFrom(SubSeq(whole.yielded, 1, i - 1), 1, EmptyDict).error = "none"))
                 ELSE Reader(ACT_FIELDNAMES_IN, DATE_START, DATE_END, None)
           /\ IF end.error # "none" \/ whole.error # "none"
              THEN /\ Raise("KeyError")
                   /\ UNCHANGED totals_by_color
              ELSE /\ totals_by_color' = end.dict
                   /\ pc' = "ms_matrix"
                   /\ UNCHANGED <<exit_code, exception>>
    /\ UNCHANGED <<note, args, stdout, files, list_of_dicts, elfncolor_2014,
                   elfncolor_2015, elf_ids>>

\* The loop of calculate_MarketShare_matrix over elves x colors, collected by
\* save_list_of_dicts.
CalculateMatrix ==
    /\ pc = "ms_matrix"
    /\ \E elves \in Perms(DOMAIN elf_ids) :
          \E colors \in Perms(LookupColors) :
             LET rows == MatrixRows(elves, colors, elfncolor_2014, elfncolor_2015,
                                    elf_ids, totals_by_color)
             IN  IF \E k \in 1..Len(rows) :
                        \/ rows[k]["2015 vs. 2014"] = Some(DivisionError)
                        \/ rows[k]["2015 Mining Market Share"] = Some(DivisionError)
                 THEN /\ Raise("ZeroDivisionError")
                      /\ UNCHANGED list_of_dicts
                 ELSE /\ list_of_dicts' = rows
                      /\ pc' = "ms_rows"
                      /\ UNCHANGED <<exit_code, exception>>
    /\ UNCHANGED <<note, args, stdout, files, reader, elfncolor_2014,
                   elfncolor_2015, elf_ids, totals_by_color>>

\* The rest of write_new_csv, make_market_share_data's print, and main's end.
MsWriteRows ==
    /\ pc = "ms_rows"
    /\ files' = Written(MS_CSV)
    /\ stdout' = Append(stdout, <<"wrote", Len(list_of_dicts), MS_CSV>>)
    /\ exit_code' = Some(0)
    /\ pc' = "exited"
    /\ UNCHANGED <<note, args, exception, reader, list_of_dicts, elfncolor_2014, elfncolor_2015,
                   elf_ids, totals_by_color>>

Next ==
    \/ ShowNotes
    \/ NoArgs
    \/ MakeRankByTgr
    \/ TgrSaveListOfDicts
    \/ TgrWriteRows
    \/ MakeMarketShareData
    \/ Data2014
    \/ Data2015
    \/ Data2015All
    \/ CalculateMatrix
    \/ MsWriteRows

Spec == Init /\ [][Next]_vars

\* ------------------------------------------------------------------
\* What the properties below speak of, stated from the input file alone.

HasFile == ~note /\ args # <<>>

\* The run is over and both reports were written.
Completed == pc = "exited" /\ HasFile /\ exit_code = Some(0)

\* The columns of the input file's header (any, for a file without rows).
Header == IF csv_file = <<>> THEN ALL_COLUMNS ELSE DOMAIN csv_file[1]

ColumnsOf(fieldnames_in) ==
    { fieldnames_in[i] : i \in 1..Len(fieldnames_in) } \cup {MINING_DATE}

\* The filter predicate: every required field and the date non-empty, and
\* start <= date < end.
Passes(row, fieldnames_in, start, end) ==
    /\ \A c \in ColumnsOf(fieldnames_in) : row[c] # ""
    /\ StrpDate(start) <= StrpDate(row[MINING_DATE])
    /\ StrpDate(row[MINING_DATE]) < StrpDate(end)

\* The places in the file of the rows a data set keeps.
Kept(fieldnames_in, start, end) ==
    { i \in 1..Len(csv_file) : Passes(csv_file[i], fieldnames_in, start, end) }

\* The color the lookup file gives a gem type, if any.
ColorsOfType(t) == { COLO_CSV[k].color : k \in { j \in 1..Len(COLO_CSV) : COLO_CSV[j].type = t } }

\* The colors of the lookup file that the category table knows.
KnownColors == { COLO_CSV[k].color : k \in 1..Len(COLO_CSV) } \cap DOMAIN COLOR_TO_COLORCAT

\* The kept rows of elf e (of any elf, for AllColorTotals) and color c.
KeptOf(e, c, start, end) ==
    { i \in Kept(MSA_FIELDNAMES_IN, start, end) :
        csv_file[i][ELF_NAME] = e /\ c \in ColorsOfType(csv_file[i][GEM_TYPE]) }

KeptOfColor(c, start, end) ==
    { i \in Kept(ACT_FIELDNAMES_IN, start, end) : c \in ColorsOfType(csv_file[i][GEM_TYPE]) }

\* The elves with at least one kept row in the reporting window.
Entities == { csv_file[i][ELF_NAME] : i \in Kept(MSA_FIELDNAMES_IN, DATE_START, DATE_END) }

\* The exact sum of weight * quantity, in hundredths, over rows of the file.
RECURSIVE SumGrams(_)
SumGrams(S) ==
    IF S = {}
    THEN 0
    ELSE LET i == CHOOSE j \in S : TRUE
         IN  Decimal(csv_file[i][WEIGHT]) * Decimal(csv_file[i][QUANTITY]) + SumGrams(S \ {i})

\* A row some MarketShareAnalysis or AllColorTotals keeps has a gem type the
\* lookup file lacks; a color the category table lacks.
UnknownTypeKept ==
    \E i \in Kept(ACT_FIELDNAMES_IN, PRIOR_START, DATE_END) :
        ColorsOfType(csv_file[i][GEM_TYPE]) = {}

UncategorizedKept ==
    \E i \in Kept(ACT_FIELDNAMES_IN, PRIOR_START, DATE_END) :
        \E c \in ColorsOfType(csv_file[i][GEM_TYPE]) : c \notin DOMAIN COLOR_TO_COLORCAT

\* The rows of the market share matrix, once calculate_MarketShare_matrix has
\* yielded them all.
MatrixDone == pc = "ms_rows" \/ (Completed /\ files[MS_CSV] # None)

Matrix == IF pc = "ms_rows" THEN list_of_dicts ELSE files[MS_CSV][1].rows

NUMERIC_FIELDS ==
    {"Total Weight 2014", "Total Weight 2015", "2015 vs. 2014",
     "2015 Mining Market Share", "2015 Color Rank"}

\* rows holds exactly one row for every pair of Entities x KnownColors and no
\* other; identity fields populated; a pair without data in either period has
\* no numeric value.
IsCrossProduct(rows) ==
    /\ Len(rows) = Cardinality(Entities \X KnownColors)
    /\ { <<rows[k][ELF_NAME], rows[k]["Gem Color"]>> : k \in 1..Len(rows) }
          = Entities \X KnownColors
    /\ \A k \in 1..Len(rows) :
          /\ rows[k][ELF_NAME] # ""
          /\ rows[k][ELF_ID] # ""
          /\ rows[k]["Color Cat"] = COLOR_TO_COLORCAT[rows[k]["Gem Color"]]
          /\ ( /\ KeptOf(rows[k][ELF_NAME], rows[k]["Gem Color"], DATE_START, DATE_END) = {}
               /\ KeptOf(rows[k][ELF_NAME], rows[k]["Gem Color"], PRIOR_START, PRIOR_END) = {} )
             => \A f \in NUMERIC_FIELDS : rows[k][f] = None

\* ------------------------------------------------------------------
\* C1

\* C1: the market share matrix emits exactly one row for every pair of {elves
\* with a kept row in the reporting window} x {colors of the lookup the category
\* table knows} and no other row; a pair without data in either period is there
\* with its identity fields and without any numeric value.
C1_CrossProduct == MatrixDone => IsCrossProduct(Matrix)

\* C1's case: a matrix of four rows, one of them without data.
C1_Witness ==
    /\ MatrixDone
    /\ Len(Matrix) = 4
    /\ \E k \in 1..Len(Matrix) : \A f \in NUMERIC_FIELDS : Matrix[k][f] = None

\* ------------------------------------------------------------------
\* C2

\* C2: a kept row whose gem type the lookup lacks does not abort the
\* aggregation: the run completes, and every per-color and per-elf total is the
\* sum over the other kept rows.  Stated of a finished run on a file with every
\* column whose kept rows of known gem types all have colors the category
\* table knows.
C2_UnknownGemTypeSkipped ==
    (pc = "exited" /\ HasFile /\ Header = ALL_COLUMNS /\ ~UncategorizedKept /\ UnknownTypeKept)
        => /\ exit_code = Some(0)
           /\ \A c \in KnownColors :
                 /\ c \in DOMAIN totals_by_color <=> KeptOfColor(c, DATE_START, DATE_END) # {}
                 /\ c \in DOMAIN totals_by_color =>
                       totals_by_color[c] = SumGrams(KeptOfColor(c, DATE_START, DATE_END))
                 /\ \A e \in Entities :
                       /\ <<e, c>> \in DOMAIN elfncolor_2015
                             <=> KeptOf(e, c, DATE_START, DATE_END) # {}
                       /\ <<e, c>> \in DOMAIN elfncolor_2015 =>
                             elfncolor_2015[<<e, c>>]["Total Weight"]
                                = SumGrams(KeptOf(e, c, DATE_START, DATE_END))

\* ------------------------------------------------------------------
\* C3

RECURSIVE SumTotal2015(_, _)
SumTotal2015(rows, S) ==
    IF S = {}
    THEN 0
    ELSE LET k == CHOOSE j \in S : TRUE
         IN  rows[k]["Total Weight 2015"][1] + SumTotal2015(rows, S \ {k})

\* C3: for every color, the denominator of the market share
\* (AllColorTotals.totals_by_color[color]) is the sum over the elves of the
\* 'Total Weight 2015' values of that color in the matrix.
C3_DenominatorIsSumOfEntityTotals ==
    (MatrixDone /\ Header = ALL_COLUMNS) =>
        \A c \in DOMAIN totals_by_color :
            totals_by_color[c] =
                SumTotal2015(Matrix, { k \in 1..Len(Matrix) :
                                         /\ Matrix[k]["Gem Color"] = c
                                         /\ Matrix[k]["Total Weight 2015"] # None })

\* ------------------------------------------------------------------
\* C4

\* The output file of the report main is at.
Destination == IF \E k \in 1..Len(stdout) : stdout[k][1] = "wrote" THEN MS_CSV ELSE TGR_CSV

\* C4: when the input file lacks a required column the run ends in an error,
\* and the report's output file has not been created or truncated before it.
C4_NoOutputBeforeMissingColumnAbort ==
    (HasFile /\ reader.error = "KeyError")
        => /\ exit_code = Some(1)
           /\ files[Destination] = None

\* ------------------------------------------------------------------
\* C5

\* C5: when the header lacks a column the data set requires, the first row
\* examined raises and ends the read: no row is yielded or skipped before the
\* KeyError, whatever the row's other fields hold.
C5_FirstRowRaises ==
    (/\ HasFile
     /\ reader.fieldnames_in # <<>>
     /\ csv_file # <<>>
     /\ ~(ColumnsOf(reader.fieldnames_in) \subseteq Header))
        => /\ reader.error = "KeyError"
           /\ reader.examined = 1
           /\ reader.yielded = <<>>

\* ------------------------------------------------------------------
\* C6

\* C6: in every matrix row '2015 vs. 2014' is the current total divided by the
\* prior total when both are present and the prior total is not zero, and None
\* in every other case; the ratio never ends the run in a division error.
C6_RatioOrNull ==
    /\ exception # "ZeroDivisionError"
    /\ MatrixDone =>
          \A k \in 1..Len(Matrix) :
              LET cur == Matrix[k]["Total Weight 2015"]
                  prior == Matrix[k]["Total Weight 2014"]
                  ratio == Matrix[k]["2015 vs. 2014"]
              IN  IF cur # None /\ prior # None /\ prior[1] # 0
                  THEN /\ ratio # None
                       /\ ratio[1][2] > 0
                       /\ ratio[1][1] * prior[1] = cur[1] * ratio[1][2]
                  ELSE ratio = None

\* C6's case: a pair with a current total whose prior total is zero, next to no
\* ratio.
C6_Witness ==
    /\ MatrixDone
    /\ \E k \in 1..Len(Matrix) :
          /\ Matrix[k]["Total Weight 2014"] = Some(0)
          /\ Matrix[k]["Total Weight 2015"] # None
          /\ Matrix[k]["2015 vs. 2014"] = None

\* ------------------------------------------------------------------
\* C7, C8

\* Ascending order of the elves' names.
NameOrder == ("" :> 0) @@ ("A" :> 1) @@ ("B" :> 2)

\* The rows of the total gold rank, once rank_tgr_by_elf has yielded them all.
TgrDone == pc = "tgr_rows" \/ (HasFile /\ stdout # <<>>)

TgrRows == IF pc = "tgr_rows" THEN list_of_dicts ELSE files[TGR_CSV][1].rows

\* data_2015's rows are there, keyed by elf and color.
Ranked2015 == pc \in {"ms_all", "ms_matrix", "ms_rows"} \/ (Completed /\ files[MS_CSV] # None)

\* The members of a color's ranking partition.
Partition(c) == { key \in DOMAIN elfncolor_2015 : key[2] = c }

\* C7: elves with equal totals get their ranks in ascending order of the elf's
\* name, whatever order the rows come in: in the total gold rank, and within
\* each color of the market share report.
C7_TiesAscendingByIdentifier ==
    /\ TgrDone =>
          \A i, j \in 1..Len(TgrRows) :
              (TgrRows[i]["Rank"] < TgrRows[j]["Rank"] /\ TgrRows[i][GOLD] = TgrRows[j][GOLD])
                  => NameOrder[TgrRows[i][ELF_NAME]] < NameOrder[TgrRows[j][ELF_NAME]]
    /\ Ranked2015 =>
          \A x, y \in DOMAIN elfncolor_2015 :
              (/\ x[2] = y[2]
               /\ elfncolor_2015[x]["Rank in Gem Color"] < elfncolor_2015[y]["Rank in Gem Color"]
               /\ elfncolor_2015[x]["Total Weight"] = elfncolor_2015[y]["Total Weight"])
                  => NameOrder[x[1]] < NameOrder[y[1]]

\* C8: in every ranking partition of N members (the elves of the total gold
\* rank; the elves with data for a color) the ranks are 1..N, each used once,
\* and a lower rank never has a smaller total.
C8_DenseRanksDescending ==
    /\ TgrDone =>
          /\ { TgrRows[i][ELF_NAME] : i \in 1..Len(TgrRows) }
                = { csv_file[i][ELF_NAME] : i \in Kept(TGR_FIELDNAMES_IN, DATE_START, DATE_END) }
          /\ \A i, j \in 1..Len(TgrRows) :
                TgrRows[i][ELF_NAME] = TgrRows[j][ELF_NAME] => i = j
          /\ { TgrRows[i]["Rank"] : i \in 1..Len(TgrRows) } = 1..Len(TgrRows)
          /\ \A i, j \in 1..Len(TgrRows) :
                TgrRows[i]["Rank"] < TgrRows[j]["Rank"] => TgrRows[i][GOLD] >= TgrRows[j][GOLD]
    /\ Ranked2015 =>
          \A c \in KnownColors :
              /\ Partition(c) = { <<e, c>> : e \in { e \in Entities :
                                                       KeptOf(e, c, DATE_START, DATE_END) # {} } }
              /\ \A x, y \in Partition(c) :
                    elfncolor_2015[x]["Rank in Gem Color"] = elfncolor_2015[y]["Rank in Gem Color"]
                        => x = y
              /\ { elfncolor_2015[x]["Rank in Gem Color"] : x \in Partition(c) }
                    = 1..Cardinality(Partition(c))
              /\ \A x, y \in Partition(c) :
                    elfncolor_2015[x]["Rank in Gem Color"] < elfncolor_2015[y]["Rank in Gem Color"]
                        => elfncolor_2015[x]["Total Weight"] >= elfncolor_2015[y]["Total Weight"]

\* C8's case: two elves with different totals in the total gold rank and in
\* one color's partition.
C8_Witness ==
    /\ Ranked2015
    /\ Len(TgrRows) = 2
    /\ TgrRows[1][GOLD] # TgrRows[2][GOLD]
    /\ \E x, y \in DOMAIN elfncolor_2015 :
          /\ x[2] = y[2]
          /\ elfncolor_2015[x]["Total Weight"] # elfncolor_2015[y]["Total Weight"]

\* ------------------------------------------------------------------
\* C9

\* The rows of the file that pass the filter, in the file's order, each with
\* the required columns only.
Filtered(fieldnames_in, start, end) ==
    LET passing == SelectSeq(csv_file, LAMBDA r : Passes(r, fieldnames_in, start, end))
    IN  [i \in 1..Len(passing) |->
            [c \in { fieldnames_in[k] : k \in 1..Len(fieldnames_in) } |-> passing[i][c]]]

\* C9: under a header with every required column get_csv_bits raises nothing
\* and yields the rows that pass the filter (required fields and date
\* non-empty, start <= date < end), in source order, each once and with the
\* required columns only; a consumer that stops early has got the first of
\* them.
C9_YieldsTheFilteredRows ==
    (HasFile /\ reader.fieldnames_in # <<>> /\ ColumnsOf(reader.fieldnames_in) \subseteq Header)
        => LET expected == Filtered(reader.fieldnames_in, reader.start, reader.end)
           IN  /\ reader.error = "none"
               /\ reader.exhausted => reader.yielded = expected
               /\ Len(reader.yielded) <= Len(expected)
               /\ reader.yielded = SubSeq(expected, 1, Len(reader.yielded))

\* C9's case: a read to the end of a file of three rows that yields the first
\* and the last, the middle one being at the window's end or without a name.
C9_Witness ==
    /\ HasFile
    /\ reader.exhausted
    /\ Len(csv_file) = 3
    /\ Len(reader.yielded) = 2
    /\ ~Passes(csv_file[2], reader.fieldnames_in, reader.start, reader.end)

\* ------------------------------------------------------------------
\* C10

\* C10: a report's output row sequence is the same whatever order the loops
\* over dicts and sets take: the rows this run produced are the rows every
\* other choice of orders produces from the same input.
C10_OutputIndependentOfIterationOrder ==
    /\ pc = "tgr_rows" =>
          \A order \in Perms(DOMAIN TgrTotals(reader.yielded)) :
              list_of_dicts = rank_tgr_by_elf(TgrTotals(reader.yielded), order)
    /\ pc = "ms_rows" =>
          \A elves \in Perms(DOMAIN elf_ids) :
              \A colors \in Perms(LookupColors) :
                  list_of_dicts = MatrixRows(elves, colors, elfncolor_2014, elfncolor_2015,
                                             elf_ids, totals_by_color)

\* ------------------------------------------------------------------
\* C11

\* The colors of the lookup file that the category table lacks.
UncategorizedColors == LookupColors \ DOMAIN COLOR_TO_COLORCAT

\* C11: with a lookup that maps a gem type to a color the category table
\* lacks, the market share report still completes, whether or not rows of the
\* file carry a gem type of that color: the run ends with status 0 and the
\* matrix written holds the pairs of every other color and none of that color.
\* Stated of a finished run on a file with every column whose kept rows all
\* have gem types the lookup knows.
C11_UncategorizedColorDropped ==
    (pc = "exited" /\ HasFile /\ Header = ALL_COLUMNS /\ ~UnknownTypeKept
        /\ UncategorizedColors # {})
        => /\ exit_code = Some(0)
           /\ files[MS_CSV] # None
           /\ IsCrossProduct(files[MS_CSV][1].rows)

\* ------------------------------------------------------------------
\* C12

\* The kept rows of elf e and color c dated in the window one year before
\* [start, end): [start - 1 year, end - 1 year).
KeptOfYearBefore(e, c, start, end) ==
    { i \in 1..Len(csv_file) :
        /\ \A col \in ColumnsOf(MSA_FIELDNAMES_IN) : csv_file[i][col] # ""
        /\ StrpDate(start) - 10000 <= StrpDate(csv_file[i][MINING_DATE])
        /\ StrpDate(csv_file[i][MINING_DATE]) < StrpDate(end) - 10000
        /\ csv_file[i][ELF_NAME] = e
        /\ c \in ColorsOfType(csv_file[i][GEM_TYPE]) }

\* C12: in every matrix row, 'Total Weight 2014' is the sum over exactly the
\* kept rows of the pair dated in the window one year before the reporting
\* window, and None when the pair has no such row.
C12_PriorWindowIsYearBefore ==
    (MatrixDone /\ Header = ALL_COLUMNS) =>
        \A k \in 1..Len(Matrix) :
            LET prior == KeptOfYearBefore(Matrix[k][ELF_NAME], Matrix[k]["Gem Color"],
                                          DATE_START, DATE_END)
            IN  Matrix[k]["Total Weight 2014"] =
                    IF prior = {} THEN None ELSE Some(SumGrams(prior))

\* ------------------------------------------------------------------
\* C13

\* The elf names in the file.
NamesInFile == { csv_file[i][ELF_NAME] : i \in 1..Len(csv_file) }

\* double_key, the keyed output of a MarketShareAnalysis over [start, end),
\* holds for every elf and color exactly the pairs with a kept row, each with
\* the exact sum of weight * quantity over the pair's kept rows.
TotalsPerElfExact(double_key, start, end) ==
    \A e \in NamesInFile, c \in LookupColors :
        /\ <<e, c>> \in DOMAIN double_key <=> KeptOf(e, c, start, end) # {}
        /\ <<e, c>> \in DOMAIN double_key =>
              double_key[<<e, c>>]["Total Weight"] = SumGrams(KeptOf(e, c, start, end))

\* AllColorTotals has run to its end.
AllTotalsDone == pc \in {"ms_matrix", "ms_rows"} \/ (Completed /\ files[MS_CSV] # None)

\* C13: once an aggregation has run to its end (so every gem type it met was in
\* the lookup), the total of every (elf, color) is the exact sum of
\* weight * quantity over the kept rows of that elf whose gem type maps to the
\* color, a key (elf, color) exists iff there is such a row, and
\* totals_by_color gives every color the exact sum over all the rows
\* AllColorTotals keeps of that color.
C13_TotalsAreExactSums ==
    (HasFile /\ ColumnsOf(MSA_FIELDNAMES_IN) \subseteq Header) =>
        /\ (pc \in {"ms_2015", "ms_all"} \/ AllTotalsDone)
              => TotalsPerElfExact(elfncolor_2014, PRIOR_START, PRIOR_END)
        /\ Ranked2015 => TotalsPerElfExact(elfncolor_2015, DATE_START, DATE_END)
        /\ AllTotalsDone =>
              \A c \in LookupColors :
                  /\ c \in DOMAIN totals_by_color <=> KeptOfColor(c, DATE_START, DATE_END) # {}
                  /\ c \in DOMAIN totals_by_color =>
                        totals_by_color[c] = SumGrams(KeptOfColor(c, DATE_START, DATE_END))

\* C13's case: an elf's total of a color adds up two rows, 1.5 * 2 = 3.00 among
\* them, and the color's total over all elves is larger still.
C13_Witness ==
    /\ AllTotalsDone
    /\ \E e \in NamesInFile, c \in LookupColors :
          /\ Cardinality(KeptOf(e, c, DATE_START, DATE_END)) >= 2
          /\ \E i \in KeptOf(e, c, DATE_START, DATE_END) :
                Decimal(csv_file[i][WEIGHT]) * Decimal(csv_file[i][QUANTITY]) = 300
          /\ elfncolor_2015[<<e, c>>]["Total Weight"] > 300
          /\ totals_by_color[c] > elfncolor_2015[<<e, c>>]["Total Weight"]

\* ------------------------------------------------------------------
\* C14

\* C14: in every matrix row of a pair that has a kept row in the reporting
\* window (a total, be it zero) and whose color has a non-zero total over all
\* elves, 'Total Weight 2015', '2015 Color Rank' and '2015 Mining Market Share'
\* are all present, and the share of a zero total is zero.
C14_NullOnlyForAbsentData ==
    (MatrixDone /\ Header = ALL_COLUMNS) =>
        \A k \in 1..Len(Matrix) :
            LET e == Matrix[k][ELF_NAME]
                c == Matrix[k]["Gem Color"]
            IN  (/\ KeptOf(e, c, DATE_START, DATE_END) # {}
                 /\ c \in DOMAIN totals_by_color
                 /\ totals_by_color[c] # 0)
                    => /\ Matrix[k]["Total Weight 2015"] # None
                       /\ Matrix[k]["2015 Color Rank"] # None
                       /\ Matrix[k]["2015 Mining Market Share"] # None
                       /\ Matrix[k]["Total Weight 2015"] = Some(0)
                             => Matrix[k]["2015 Mining Market Share"][1][1] = 0

\* ------------------------------------------------------------------
\* C15

\* Both reports were written: each file holds its rows and each report has
\* printed its count.
BothReportsWritten ==
    /\ files[TGR_CSV] # None
    /\ files[MS_CSV] # None
    /\ \E j, k \in 1..Len(stdout) :
          /\ stdout[j][1] = "wrote" /\ stdout[j][3] = TGR_CSV
          /\ stdout[k][1] = "wrote" /\ stdout[k][3] = MS_CSV

\* C15: a run without the notes flag and without an input file path prints the
\* usage text and ends with a non-zero exit status, having run neither report;
\* a run without the notes flag ends with exit status 0 only when both reports
\* were written.
C15_ExitStatus ==
    (pc = "exited" /\ ~note) =>
        /\ args = <<>> =>
              /\ stdout = << <<"help">> >>
              /\ files[TGR_CSV] = None
              /\ files[MS_CSV] = None
              /\ exit_code # Some(0)
        /\ exit_code = Some(0) => BothReportsWritten

\* ------------------------------------------------------------------
\* translate_to_NPSP.py: PayPalTransactions, run by its own main().  A second
\* program with the same shape as the first: the variables args, pc,
\* exit_code, exception, stdout, files, reader and list_of_dicts stand for its
\* state, the others are not used.  A Name is a sequence of characters, so
\* that rsplit has something to split; the other fields are whole values.

MaxPayments == 2
MaxNameLen == 3

NAME == "Name"
GROSS == "Gross"
ADDRESS_LINE_2 == "Address Line 2/District"

\* The columns get_paypal_rows reads, and 'Time' for the thirty-two columns it
\* carries and never reads.
PAYPAL_COLUMNS ==
    <<"Date", "Time", NAME, "Type", GROSS, "Note", "From Email Address",
      "Address Line 1", ADDRESS_LINE_2, "Town/City", "State/Province",
      "Zip/Postal Code", "Country">>

\* The columns get_paypal_rows fills, and 'Contact1 Salutation' for the ones
\* dict.fromkeys leaves ''.
NPSP_COLUMNS ==
    <<"Contact1 Salutation", "Contact1 First Name", "Contact1 Last Name",
      "Contact1 Personal Email", "Home Street", "Home City", "Home State/Province",
      "Home Zip/Postal Code", "Home Country", "Donation Amount", "Donation Date",
      "Donation Type", "Donation Description">>

NPSP_CSV == "-npsp.csv"

\* GetDataSet.keep_me of translate_to_NPSP.py: the loop over ['Name', 'Gross'];
\* the date test is commented out.  The empty Name is the empty sequence.
RECURSIVE PaypalKeepScan(_, _, _)
PaypalKeepScan(row, cols, i) ==
    IF i > Len(cols)
    THEN "keep"
    ELSE IF cols[i] \notin DOMAIN row
         THEN "KeyError"
         ELSE IF row[cols[i]] = (IF cols[i] = NAME THEN <<>> ELSE "")
              THEN "skip"
              ELSE PaypalKeepScan(row, cols, i + 1)

paypal_keep_me(row) == PaypalKeepScan(row, <<NAME, GROSS>>, 1)

\* GetDataSet.get_csv_bits of translate_to_NPSP.py run to its end: the rows
\* yielded, how many rows the reader examined, and the KeyError of keep_me or
\* of {k: row[k] for k in self.fieldnames_in}.
RECURSIVE PaypalCsvBitsFrom(_, _, _)
PaypalCsvBitsFrom(rows, i, acc) ==
    IF i > Len(rows)
    THEN [yielded |-> acc, examined |-> Len(rows), error |-> "none"]
    ELSE LET k == paypal_keep_me(rows[i])
         IN  IF k = "KeyError"
                \/ (k = "keep" /\ \E c \in 1..Len(PAYPAL_COLUMNS) :
                                     PAYPAL_COLUMNS[c] \notin DOMAIN rows[i])
             THEN [yielded |-> acc, examined |-> i, error |-> "KeyError"]
             ELSE PaypalCsvBitsFrom(rows, i + 1,
                                    IF k = "keep"
                                    THEN Append(acc, Project(rows[i], PAYPAL_COLUMNS))
                                    ELSE acc)

paypal_get_csv_bits(rows) == PaypalCsvBitsFrom(rows, 1, <<>>)

\* The place of the last ' ' in s, 0 without one.
RECURSIVE LastSpace(_, _)
LastSpace(s, i) ==
    IF i = 0 THEN 0 ELSE IF s[i] = " " THEN i ELSE LastSpace(s, i - 1)

\* s.rsplit(' ', 1): s cut at its last space, or s alone.
rsplit(s) ==
    LET i == LastSpace(s, Len(s))
    IN  IF i = 0 THEN <<s>> ELSE <<SubSeq(s, 1, i - 1), SubSeq(s, i + 1, Len(s))>>

\* One pass of the loop of get_paypal_rows: output_row, or the ValueError of
\* 'first, last = ...' when rsplit gives one part.  'Home Street' is the
\* sequence of the pieces joined.
output_row(row) ==
    LET parts == rsplit(row[NAME])
    IN  IF Len(parts) # 2
        THEN [error |-> "ValueError", row |-> <<>>]
        ELSE [error |-> "none",
              row |-> ("Contact1 Salutation" :> "") @@
                      ("Donation Date" :> row["Date"]) @@
                      ("Contact1 First Name" :> parts[1]) @@
                      ("Contact1 Last Name" :> parts[2]) @@
                      ("Donation Type" :> row["Type"]) @@
                      ("Donation Amount" :> row[GROSS]) @@
                      ("Contact1 Personal Email" :> row["From Email Address"]) @@
                      ("Donation Description" :> row["Note"]) @@
                      ("Home Street" :> IF row[ADDRESS_LINE_2] # ""
                                        THEN <<row["Address Line 1"], ", ", row[ADDRESS_LINE_2]>>
                                        ELSE <<row["Address Line 1"]>>) @@
                      ("Home City" :> row["Town/City"]) @@
                      ("Home State/Province" :> row["State/Province"]) @@
                      ("Home Zip/Postal Code" :> row["Zip/Postal Code"]) @@
                      ("Home Country" :> row["Country"])]

\* get_paypal_rows over the rows get_csv_bits yields: the rows it yields and
\* how many it took, up to its end or to the first ValueError.
RECURSIVE PaypalRowsFrom(_, _, _)
PaypalRowsFrom(yielded, i, acc) ==
    IF i > Len(yielded)
    THEN [error |-> "none", rows |-> acc, consumed |-> Len(yielded)]
    ELSE LET out == output_row(yielded[i])
         IN  IF out.error # "none"
             THEN [error |-> out.error, rows |-> acc, consumed |-> i]
             ELSE PaypalRowsFrom(yielded, i + 1, Append(acc, out.row))

get_paypal_rows(yielded) == PaypalRowsFrom(yielded, 1, <<>>)

\* The PayPal files: up to MaxPayments rows, every Name of up to MaxNameLen
\* characters, Gross and the second address line empty or not, and a header
\* that is complete or lacks a column keep_me reads or one it does not.
NameChars == {"A", "B", " "}

Names == UNION { [1..n -> NameChars] : n \in 0..MaxNameLen }

PaypalRow(name, gross, line2) ==
    ("Date" :> "3/1/2015") @@ ("Time" :> "10:00:00") @@ (NAME :> name) @@
    ("Type" :> "Donation") @@ (GROSS :> gross) @@ ("Note" :> "") @@
    ("From Email Address" :> "a@x.org") @@ ("Address Line 1" :> "1 Main St") @@
    (ADDRESS_LINE_2 :> line2) @@ ("Town/City" :> "Town") @@
    ("State/Province" :> "ST") @@ ("Zip/Postal Code" :> "00000") @@
    ("Country" :> "US")

PaypalRows ==
    { PaypalRow(n, g, l) : n \in Names, g \in {"", "5"}, l \in {"", "Apt 2"} }

PaypalColumnSet == { PAYPAL_COLUMNS[c] : c \in 1..Len(PAYPAL_COLUMNS) }

PaypalHeaders == {PaypalColumnSet, PaypalColumnSet \ {GROSS}, PaypalColumnSet \ {"Time"}}

InitNPSP ==
    /\ note = FALSE
    /\ \/ args = <<>>
       \/ \E n \in 0..MaxPayments, h \in PaypalHeaders :
             \E f \in [1..n -> PaypalRows] : args = <<InputFile(n, h, f)>>
    /\ pc = "main"
    /\ exit_code = None
    /\ exception = "none"
    /\ stdout = <<>>
    /\ files = (NPSP_CSV :> None)
    /\ reader = NoReader
    /\ list_of_dicts = <<>>
    /\ elfncolor_2014 = EmptyDict
    /\ elfncolor_2015 = EmptyDict
    /\ elf_ids = EmptyDict
    /\ totals_by_color = EmptyDict

\* not args: the help text, exit().
PaypalNoArgs ==
    /\ pc = "main"
    /\ args = <<>>
    /\ stdout' = Append(stdout, <<"help">>)
    /\ exit_code' = Some(0)
    /\ pc' = "exited"
    /\ UNCHANGED <<note, args, exception, files, reader, list_of_dicts, elfncolor_2014,
                   elfncolor_2015, elf_ids, totals_by_color>>

\* translate_paypal up to write_new_csv's header row.
TranslatePaypal ==
    /\ pc = "main"
    /\ args # <<>>
    /\ files' = Opened(NPSP_CSV, NPSP_COLUMNS)
    /\ pc' = "npsp_save"
    /\ UNCHANGED <<note, args, exit_code, exception, stdout, reader, list_of_dicts,
                   elfncolor_2014, elfncolor_2015, elf_ids, totals_by_color>>

\* save_list_of_dicts of PayPalTransactions: get_paypal_rows run to its end, or
\* to the exception that leaves main.  The reader stops at the row whose Name
\* get_paypal_rows could not unpack.
PaypalSaveListOfDicts ==
    /\ pc = "npsp_save"
    /\ LET whole == paypal_get_csv_bits(csv_file)
           out == get_paypal_rows(whole.yielded)
           upto == IF out.error = "none"
                   THEN whole.examined
                   ELSE CHOOSE n \in 1..Len(csv_file) :
                           /\ Len(paypal_get_csv_bits(SubSeq(csv_file, 1, n)).yielded)
                                 = out.consumed
                           /\ Len(paypal_get_csv_bits(SubSeq(csv_file, 1, n - 1)).yielded)
                                 = out.consumed - 1
       IN  /\ reader' = [fieldnames_in |-> PAYPAL_COLUMNS, start |-> "", end |-> "",
                         yielded |-> SubSeq(whole.yielded, 1, out.consumed),
                         examined |-> upto,
                         error |-> IF out.error = "none" THEN whole.error ELSE "none",
                         exhausted |-> out.error = "none" /\ whole.error = "none"]
           /\ list_of_dicts' = out.rows
           /\ IF out.error # "none"
              THEN Raise(out.error)
              ELSE IF whole.error # "none"
                   THEN Raise(whole.error)
                   ELSE /\ pc' = "npsp_rows"
                        /\ UNCHANGED <<exit_code, exception>>
    /\ UNCHANGED <<note, args, stdout, files, elfncolor_2014, elfncolor_2015, elf_ids,
                   totals_by_color>>

\* The rest of write_new_csv, translate_paypal's print, and main's end.
PaypalWriteRows ==
    /\ pc = "npsp_rows"
    /\ files' = Written(NPSP_CSV)
    /\ stdout' = Append(stdout, <<"wrote", Len(list_of_dicts), NPSP_CSV>>)
    /\ exit_code' = Some(0)
    /\ pc' = "exited"
    /\ UNCHANGED <<note, args, exception, reader, list_of_dicts, elfncolor_2014,
                   elfncolor_2015, elf_ids, totals_by_color>>

NextNPSP ==
    \/ PaypalNoArgs
    \/ TranslatePaypal
    \/ PaypalSaveListOfDicts
    \/ PaypalWriteRows

SpecNPSP == InitNPSP /\ [][NextNPSP]_vars

\* ------------------------------------------------------------------
\* C16

\* ' '.join([first, last])
JoinWithSpace(first, last) == first \o <<" ">> \o last

\* The places in the PayPal file of the rows with Name and Gross non-empty.
PaypalKept == { i \in 1..Len(csv_file) : csv_file[i][NAME] # <<>> /\ csv_file[i][GROSS] # "" }

\* The members of the set of places S, ascending.
RECURSIVE Ascending(_)
Ascending(S) ==
    IF S = {}
    THEN <<>>
    ELSE LET m == CHOOSE i \in S : \A j \in S : i <= j
         IN  <<m>> \o Ascending(S \ {m})

\* C16: the translation of a PayPal file with every column ends well and
\* writes exactly one row, in source order, for every source row with Name and
\* Gross non-empty, and joining a written row's 'Contact1 First Name' and
\* 'Contact1 Last Name' with one space gives the source row's Name, whatever
\* the Name, one without a space included.
C16_OneRowPerKeptRowAndNameRoundTrip ==
    (pc = "exited" /\ args # <<>> /\ Header = PaypalColumnSet) =>
        /\ exit_code = Some(0)
        /\ LET kept == Ascending(PaypalKept)
               rows == files[NPSP_CSV][1].rows
           IN  /\ Len(rows) = Len(kept)
               /\ \A k \in 1..Len(kept) :
                     /\ JoinWithSpace(rows[k]["Contact1 First Name"],
                                      rows[k]["Contact1 Last Name"]) = csv_file[kept[k]][NAME]
                     /\ rows[k]["Donation Amount"] = csv_file[kept[k]][GROSS]

====
